---- MODULE Spec2Model ----
(***************************************************************************)
(* Model of stick_figure_generator.py.                                     *)
(*                                                                         *)
(* Spec      : the Tk application: the UI thread's handlers                *)
(*             (start_generation, process_queue, the entry and the two     *)
(*             checkboxes) interleaved with the worker threads running     *)
(*             generate_images, the progress queue and the output          *)
(*             directory.                                                  *)
(* SpecFrame : one pass of the body of the generation loop: sampling the   *)
(*             angles, compute_skeleton, and the drawing calls in their    *)
(*             order, observed at the midpoints of the limb segments.      *)
(***************************************************************************)
EXTENDS Integers, Sequences, FiniteSets

\* ------------------------------------------------------------------ bounds

\* Largest count a run is started with (the code accepts any positive int).
MaxCount == 3

\* Number of runs started in one behaviour.
MaxRuns == 2

\* The arm angles are sampled on a grid of 2 * ArmGrid + 1 points of their range.
ArmGrid == 1

\* ---------------------------------------------------------------- variables

VARIABLES
    num_var,            \* text of the "Number of images" entry (sequence of characters)
    show_numbers_var,   \* "Show image numbers" checkbox
    show_progress_var,  \* "Show progress bar" checkbox
    gen_btn,            \* state of the Generate button: "normal" | "disabled"
    status_var,         \* text of the status label
    total_images,       \* self.total_images
    progress,           \* the ttk.Progressbar: [maximum, value, shown]
    dialog,             \* "none" | "error": the modal messagebox.showerror
    after_pending,      \* number of scheduled root.after(100, process_queue) callbacks
    queue,              \* self.queue: FIFO of items put by the workers
    workers,            \* the threads started so far, in start order
    dir_exists,         \* generated_images/ exists
    files,              \* file name -> "absent" | "partial" | "complete"
    putLog,             \* history: every item put on the queue, in order
    consumed,           \* history: every item process_queue has taken
    attempts,           \* history: <<run, op, i>> -> number of times op was attempted
    savedBy,            \* history: <<run, i>>: the save of frame i of run has returned
    frame               \* one pass of the loop body: [pc, angles, joints, pix, label]
                        \* (pix: the colour at the midpoint of each limb segment;
                        \*  label: the index drawn, 0 for none)

appVars == <<num_var, show_numbers_var, show_progress_var, gen_btn, status_var,
             total_images, progress, dialog, after_pending, queue, workers,
             dir_exists, files, putLog, consumed, attempts, savedBy>>

vars == <<appVars, frame>>

\* ------------------------------------------------------------ int(str)

Digit == [c \in {"0", "1", "2", "3", "4", "5", "6", "7", "8", "9"} |->
            CASE c = "0" -> 0 [] c = "1" -> 1 [] c = "2" -> 2 [] c = "3" -> 3
              [] c = "4" -> 4 [] c = "5" -> 5 [] c = "6" -> 6 [] c = "7" -> 7
              [] c = "8" -> 8 [] c = "9" -> 9]

IsDigit(c) == c \in DOMAIN Digit

RECURSIVE LStrip(_)
LStrip(s) == IF s # <<>> /\ Head(s) = " " THEN LStrip(Tail(s)) ELSE s

RECURSIVE RStrip(_)
RStrip(s) == IF s # <<>> /\ s[Len(s)] = " " THEN RStrip(SubSeq(s, 1, Len(s) - 1)) ELSE s

RECURSIVE DigitsValue(_)
DigitsValue(s) == IF s = <<>> THEN 0
                  ELSE 10 * DigitsValue(SubSeq(s, 1, Len(s) - 1)) + Digit[s[Len(s)]]

\* Python's int(text): surrounding blanks are stripped, one optional sign, then
\* one or more decimal digits; anything else raises ValueError (ok = FALSE).
ParseInt(text) ==
    LET s    == RStrip(LStrip(text))
        neg  == s # <<>> /\ Head(s) = "-"
        body == IF s # <<>> /\ Head(s) \in {"-", "+"} THEN Tail(s) ELSE s
        ok   == body # <<>> /\ \A k \in 1..Len(body) : IsDigit(body[k])
    IN  [ok |-> ok,
         val |-> IF ok THEN (IF neg THEN 0 - DigitsValue(body) ELSE DigitsValue(body)) ELSE 0]

\* Texts the user types into the entry.
NumInputs == { <<"1", "5", "0">>, <<"0">>, <<"-", "3">>, <<"a", "b", "c">>,
               <<"1">>, <<"2">>, <<" ", "3">>, <<"+", "4">> }

\* ------------------------------------------------------------ file names

RECURSIVE Decimal(_)
Decimal(n) == IF n < 10 THEN <<CHOOSE c \in DOMAIN Digit : Digit[c] = n>>
              ELSE Decimal(n \div 10) \o <<CHOOSE c \in DOMAIN Digit : Digit[c] = n % 10>>

RECURSIVE ZeroPad(_, _)
ZeroPad(s, w) == IF Len(s) >= w THEN s ELSE ZeroPad(<<"0">> \o s, w)

\* f"image_{n:04d}.png"
Formatted(n) == <<"image_">> \o ZeroPad(Decimal(n), 4) \o <<".png">>

\* A file name counted from zero.
FileNameFromZero(i) == Formatted(i - 1)

\* The file of frame i inside generated_images/
FileName(i) == Formatted(i)

\* The index a frame file name stands for.
IndexOf(name) == DigitsValue(SubSeq(name, 2, Len(name) - 1))

FileNames == { Formatted(n) : n \in 0..(MaxCount + 1) }

\* ------------------------------------------------------------ the objects

Runs == 1..MaxRuns
Frames == 1..(MaxCount + 1)
Ops == {"render", "save"}

ProgressItem(r, n) == [run |-> r, kind |-> "progress", n |-> n]
DoneItem(r) == [run |-> r, kind |-> "DONE", n |-> 0]

Status(text, a, b) == [text |-> text, a |-> a, b |-> b]

\* A thread running generate_images(num): i is the loop variable, pc the place
\* the thread is at, label whether the frame drawn last got its number, show0
\* the checkbox value when start_generation started the thread.
Worker(num, show0) == [num |-> num, i |-> 1, pc |-> "makedirs", fail |-> "none",
                       label |-> show0, show0 |-> show0]

\* A thread that has returned from generate_images(num): its locals are gone.
Returned(num) == [num |-> num, i |-> num + 1, pc |-> "finished", fail |-> "none",
                  label |-> FALSE, show0 |-> FALSE]

\* A loop body that reports the frame before saving it.
BodyPutBeforeSave == <<"render", "put", "save_open", "save_write">>

\* The statements of the loop body that act on the shared state, in their order:
\* the drawing of the frame (which reads the checkbox), img.save (opening the
\* file, then writing it), self.queue.put(i).
Body == <<"render", "save_open", "save_write", "put">>

\* A loop head that stops one frame early: range(1, num_images).
LoopHeadStopsEarly(num, i) == IF i < num THEN Body[1] ELSE "put_done"

\* The loop head "for i in range(1, num_images + 1)": the place reached with
\* loop variable i.
LoopHead(num, i) == IF i <= num THEN Body[1] ELSE "put_done"

\* StickFigureApp.__init__ and setup_ui; the output directory starts absent.
InitApp ==
    /\ num_var = <<"1", "5", "0">>
    /\ show_numbers_var = TRUE
    /\ show_progress_var = TRUE
    /\ gen_btn = "normal"
    /\ status_var = Status("", 0, 0)
    /\ total_images = 0
    /\ progress = [maximum |-> 100, value |-> 0, shown |-> FALSE]
    /\ dialog = "none"
    /\ after_pending = 0
    /\ queue = <<>>
    /\ workers = <<>>
    /\ dir_exists = FALSE
    /\ files = [f \in FileNames |-> "absent"]
    /\ putLog = <<>>
    /\ consumed = {}
    /\ attempts = [t \in Runs \X Ops \X Frames |-> 0]
    /\ savedBy = {}

history == <<putLog, consumed, attempts, savedBy>>
disk == <<dir_exists, files>>
widgets == <<gen_btn, status_var, total_images, progress, after_pending>>

\* ------------------------------------------------------------ UI events
\* The modal error dialog grabs the input: no widget reacts while it is open.

\* The user types a text into the entry. Only start_generation reads the entry,
\* and only while the button is enabled, so the typing that matters is the
\* typing done then.
EditNum(text) ==
    /\ dialog = "none"
    /\ gen_btn = "normal"
    /\ text # num_var
    /\ num_var' = text
    /\ UNCHANGED <<frame, show_numbers_var, show_progress_var, widgets, dialog, queue,
                   workers, disk, history>>

\* The user toggles "Show image numbers".
ToggleShowNumbers ==
    /\ dialog = "none"
    /\ show_numbers_var' = ~show_numbers_var
    /\ UNCHANGED <<frame, num_var, show_progress_var, widgets, dialog, queue, workers,
                   disk, history>>

\* The user toggles "Show progress bar".
ToggleShowProgress ==
    /\ dialog = "none"
    /\ show_progress_var' = ~show_progress_var
    /\ UNCHANGED <<frame, num_var, show_numbers_var, widgets, dialog, queue, workers,
                   disk, history>>

\* A check that lets zero through: "if num < 0".
AcceptsCountFromZero(p) == p.ok /\ p.val >= 0

\* The check at the head of start_generation: int() succeeded and num > 0.
AcceptsCount(p) == p.ok /\ p.val > 0

\* start_generation, the command of the Generate button (a disabled button
\* does not invoke its command).
start_generation ==
    /\ dialog = "none"
    /\ gen_btn = "normal"
    /\ LET p == ParseInt(num_var) IN
       IF ~AcceptsCount(p)
       THEN /\ dialog' = "error"
            /\ UNCHANGED <<frame, num_var, show_numbers_var, show_progress_var, widgets,
                           queue, workers, disk, history>>
       ELSE /\ p.val <= MaxCount
            /\ Len(workers) < MaxRuns
            /\ gen_btn' = "disabled"
            /\ status_var' = Status("Generating", p.val, 0)
            /\ total_images' = p.val
            /\ progress' = IF show_progress_var
                           THEN [maximum |-> p.val, value |-> 0, shown |-> TRUE]
                           ELSE [progress EXCEPT !.shown = FALSE]
            /\ workers' = Append(workers, Worker(p.val, show_numbers_var))
            /\ after_pending' = after_pending + 1
            /\ UNCHANGED <<frame, num_var, show_numbers_var, show_progress_var, dialog,
                           queue, disk, history>>

\* The user closes the error dialog: showerror returns and start_generation
\* returns at once.
DismissError ==
    /\ dialog = "error"
    /\ dialog' = "none"
    /\ UNCHANGED <<frame, num_var, show_numbers_var, show_progress_var, widgets, queue,
                   workers, disk, history>>

\* The part of the queue process_queue takes in one call: everything up to and
\* including the first 'DONE', or everything when there is none.
RECURSIVE Taken(_)
Taken(q) == IF q = <<>> THEN <<>>
            ELSE IF Head(q).kind = "DONE" THEN <<Head(q)>>
            ELSE <<Head(q)>> \o Taken(Tail(q))

\* A handler that enables the button again on every item it takes.
RECURSIVE HandleEnablesEarly(_, _)
HandleEnablesEarly(t, w) ==
    IF t = <<>> THEN w
    ELSE IF Head(t).kind = "DONE"
         THEN [w EXCEPT !.btn = "normal", !.status = Status("Generation completed.", 0, 0),
                        !.again = FALSE]
         ELSE HandleEnablesEarly(Tail(t),
                     [w EXCEPT !.btn = "normal",
                               !.status = Status("Generated", Head(t).n, total_images)])

\* The widgets after process_queue has handled the items of t in order.
RECURSIVE Handle(_, _)
Handle(t, w) ==
    IF t = <<>> THEN w
    ELSE IF Head(t).kind = "DONE"
         THEN [w EXCEPT !.btn = "normal",
                        !.status = Status("Generation completed.", 0, 0),
                        !.progress = IF show_progress_var
                                     THEN [w.progress EXCEPT !.shown = FALSE]
                                     ELSE w.progress,
                        !.again = FALSE]
         ELSE Handle(Tail(t),
                     [w EXCEPT !.progress = IF show_progress_var
                                            THEN [w.progress EXCEPT !.value = Head(t).n]
                                            ELSE w.progress,
                               !.status = Status("Generated", Head(t).n, total_images)])

\* process_queue, run by the Tk timer (timers fire while the dialog is open too).
process_queue ==
    /\ after_pending > 0
    /\ LET t == Taken(queue)
           w == Handle(t, [btn |-> gen_btn, status |-> status_var,
                           progress |-> progress, again |-> TRUE])
       IN /\ queue' = SubSeq(queue, Len(t) + 1, Len(queue))
          /\ consumed' = consumed \cup { t[k] : k \in 1..Len(t) }
          /\ gen_btn' = w.btn
          /\ status_var' = w.status
          /\ progress' = w.progress
          /\ after_pending' = IF w.again THEN after_pending ELSE after_pending - 1
    /\ UNCHANGED <<frame, num_var, show_numbers_var, show_progress_var, total_images,
                   dialog, workers, disk, putLog, attempts, savedBy>>

\* ------------------------------------------------------------ the worker

\* The thread after the statement it is at has returned.
Advance(w) ==
    LET p == CHOOSE k \in 1..Len(Body) : Body[k] = w.pc
    IN  IF p < Len(Body) THEN [w EXCEPT !.pc = Body[p + 1]]
        ELSE [w EXCEPT !.i = w.i + 1, !.pc = LoopHead(w.num, w.i + 1)]

\* A loop that swallows the exception and goes on with the next frame.
OnFailureContinue(w, op) ==
    [w EXCEPT !.fail = op, !.i = w.i + 1, !.pc = LoopHead(w.num, w.i + 1)]

\* The thread after statement op has raised: generate_images catches nothing,
\* the exception ends the thread.
OnFailure(w, op) == [w EXCEPT !.pc = "dead", !.fail = op]

Attempted(r, op, i) == [attempts EXCEPT ![<<r, op, i>>] = @ + 1]

\* os.makedirs(out_dir, exist_ok=True) and the set-up before the loop.
Makedirs(r) ==
    /\ workers[r].pc = "makedirs"
    /\ dir_exists' = TRUE
    /\ workers' = [workers EXCEPT ![r].pc = LoopHead(workers[r].num, 1)]
    /\ UNCHANGED <<frame, num_var, show_numbers_var, show_progress_var, widgets, dialog,
                   queue, files, history>>

\* os.makedirs raises (the directory cannot be created).
MakedirsFail(r) ==
    /\ workers[r].pc = "makedirs"
    /\ ~dir_exists
    /\ workers' = [workers EXCEPT ![r] = OnFailure(@, "makedirs")]
    /\ UNCHANGED <<frame, num_var, show_numbers_var, show_progress_var, widgets, dialog,
                   queue, disk, history>>

\* Frame i is drawn; the label is drawn when the checkbox is set at that moment.
Render(r) ==
    /\ workers[r].pc = "render"
    /\ attempts' = Attempted(r, "render", workers[r].i)
    /\ workers' = [workers EXCEPT ![r] = Advance([@ EXCEPT !.label = show_numbers_var])]
    /\ UNCHANGED <<frame, num_var, show_numbers_var, show_progress_var, widgets, dialog,
                   queue, disk, putLog, consumed, savedBy>>

\* Drawing frame i raises.
RenderFail(r) ==
    /\ workers[r].pc = "render"
    /\ attempts' = Attempted(r, "render", workers[r].i)
    /\ workers' = [workers EXCEPT ![r] = OnFailure(@, "render")]
    /\ UNCHANGED <<frame, num_var, show_numbers_var, show_progress_var, widgets, dialog,
                   queue, disk, putLog, consumed, savedBy>>

\* img.save opens (and truncates) the file of frame i.
SaveOpen(r) ==
    /\ workers[r].pc = "save_open"
    /\ dir_exists
    /\ attempts' = Attempted(r, "save", workers[r].i)
    /\ files' = [files EXCEPT ![FileName(workers[r].i)] = "partial"]
    /\ workers' = [workers EXCEPT ![r] = Advance(@)]
    /\ UNCHANGED <<frame, num_var, show_numbers_var, show_progress_var, widgets, dialog,
                   queue, dir_exists, putLog, consumed, savedBy>>

\* img.save cannot open the file: nothing on the disk changes.
SaveOpenFail(r) ==
    /\ workers[r].pc = "save_open"
    /\ attempts' = Attempted(r, "save", workers[r].i)
    /\ workers' = [workers EXCEPT ![r] = OnFailure(@, "save")]
    /\ UNCHANGED <<frame, num_var, show_numbers_var, show_progress_var, widgets, dialog,
                   queue, disk, putLog, consumed, savedBy>>

\* img.save has written the whole file and returns.
SaveWrite(r) ==
    /\ workers[r].pc = "save_write"
    /\ files' = [files EXCEPT ![FileName(workers[r].i)] = "complete"]
    /\ savedBy' = savedBy \cup {<<r, workers[r].i>>}
    /\ workers' = [workers EXCEPT ![r] = Advance(@)]
    /\ UNCHANGED <<frame, num_var, show_numbers_var, show_progress_var, widgets, dialog,
                   queue, dir_exists, putLog, consumed, attempts>>

\* Writing the file fails midway (disk full): a truncated file stays, or the
\* library removes it.
SaveWriteFail(r, left) ==
    /\ workers[r].pc = "save_write"
    /\ files' = [files EXCEPT ![FileName(workers[r].i)] = left]
    /\ workers' = [workers EXCEPT ![r] = OnFailure(@, "save")]
    /\ UNCHANGED <<frame, num_var, show_numbers_var, show_progress_var, widgets, dialog,
                   queue, dir_exists, history>>

\* self.queue.put(i)
Put(r) ==
    /\ workers[r].pc = "put"
    /\ queue' = Append(queue, ProgressItem(r, workers[r].i))
    /\ putLog' = Append(putLog, ProgressItem(r, workers[r].i))
    /\ workers' = [workers EXCEPT ![r] = Advance(@)]
    /\ UNCHANGED <<frame, num_var, show_numbers_var, show_progress_var, widgets, dialog,
                   disk, consumed, attempts, savedBy>>

\* self.queue.put('DONE'), the last statement of generate_images.
PutDone(r) ==
    /\ workers[r].pc = "put_done"
    /\ queue' = Append(queue, DoneItem(r))
    /\ putLog' = Append(putLog, DoneItem(r))
    /\ workers' = [workers EXCEPT ![r] = Returned(@.num)]
    /\ UNCHANGED <<frame, num_var, show_numbers_var, show_progress_var, widgets, dialog,
                   disk, consumed, attempts, savedBy>>

\* ------------------------------------------------------------ the skeleton
\* Coordinates are fixed-point numbers in tenths of a pixel, angles are in
\* thousandths of a radian, sines and cosines in ten-thousandths.

Px(n) == 10 * n

Abs(n) == IF n < 0 THEN 0 - n ELSE n

\* math.sin and math.cos for |a| <= 1 rad, by their power series in Horner form.
SinPos(a) ==
    LET x2 == (a * a) \div 100
        u3 == 10000 - x2 \div 42
        u2 == 10000 - (x2 * u3) \div 200000
        u1 == 10000 - (x2 * u2) \div 60000
    IN  (a * u1) \div 1000

Sin(a) == IF a < 0 THEN 0 - SinPos(0 - a) ELSE SinPos(a)

Cos(a) ==
    LET x2 == (a * a) \div 100
        u4 == 10000 - x2 \div 56
        u3 == 10000 - (x2 * u4) \div 300000
        u2 == 10000 - (x2 * u3) \div 120000
    IN  10000 - (x2 * u2) \div 20000

\* length (pixels) times a sine or cosine, in tenths of a pixel, rounded
\* towards zero on both sides of zero as a floating-point product is.
Times(length, v) == IF v < 0 THEN 0 - ((length * (0 - v)) \div 1000)
                    ELSE (length * v) \div 1000

\* A polar_vector with sine and cosine exchanged.
polar_vectorSwapped(length, angle_rad) ==
    <<Times(length, Cos(angle_rad)), Times(length, Sin(angle_rad))>>

\* polar_vector: (length * sin(angle), length * cos(angle))
polar_vector(length, angle_rad) ==
    <<Times(length, Sin(angle_rad)), Times(length, Cos(angle_rad))>>

hip_x == 200
hip_y == 500

lengths == [torso |-> 120, upper_arm |-> 80, lower_arm |-> 70, upper_leg |-> 110,
            lower_leg |-> 100, head_radius |-> 50, shoulder_width |-> 30,
            hip_offset |-> 30]

\* A lower segment whose angle is taken from the vertical axis.
LowerAbsAngleFromVertical(upper, lower) == lower

\* The absolute angle of a lower segment: its own angle is relative to the
\* upper segment.
LowerAbsAngle(upper, lower) == upper + lower

Plus(p, v) == <<p[1] + v[1], p[2] + v[2]>>

compute_skeleton(hx, hy, len, angles) ==
    LET hip_center == <<Px(hx), Px(hy)>>
        left_hip == <<Px(hx - len.hip_offset), Px(hy)>>
        right_hip == <<Px(hx + len.hip_offset), Px(hy)>>
        neck_y == hy - len.torso
        neck_center == <<Px(hx), Px(neck_y)>>
        left_shoulder == <<Px(hx - len.shoulder_width), Px(neck_y)>>
        right_shoulder == <<Px(hx + len.shoulder_width), Px(neck_y)>>
        left_elbow == Plus(left_shoulder, polar_vector(len.upper_arm, angles.left_upper_arm))
        right_elbow == Plus(right_shoulder, polar_vector(len.upper_arm, angles.right_upper_arm))
        left_wrist == Plus(left_elbow,
            polar_vector(len.lower_arm, LowerAbsAngle(angles.left_upper_arm, angles.left_lower_arm)))
        right_wrist == Plus(right_elbow,
            polar_vector(len.lower_arm, LowerAbsAngle(angles.right_upper_arm, angles.right_lower_arm)))
        left_knee == Plus(left_hip, polar_vector(len.upper_leg, angles.left_upper_leg))
        right_knee == Plus(right_hip, polar_vector(len.upper_leg, angles.right_upper_leg))
        left_ankle == Plus(left_knee,
            polar_vector(len.lower_leg, LowerAbsAngle(angles.left_upper_leg, angles.left_lower_leg)))
        right_ankle == Plus(right_knee,
            polar_vector(len.lower_leg, LowerAbsAngle(angles.right_upper_leg, angles.right_lower_leg)))
        head_center == <<Px(hx), Px(neck_y - len.head_radius)>>
    IN  [hip_center |-> hip_center, left_hip |-> left_hip, right_hip |-> right_hip,
         neck |-> neck_center, head_center |-> head_center,
         left_shoulder |-> left_shoulder, right_shoulder |-> right_shoulder,
         left_elbow |-> left_elbow, right_elbow |-> right_elbow,
         left_wrist |-> left_wrist, right_wrist |-> right_wrist,
         left_knee |-> left_knee, right_knee |-> right_knee,
         left_ankle |-> left_ankle, right_ankle |-> right_ankle]

JointNames == {"hip_center", "left_hip", "right_hip", "neck", "head_center",
               "left_shoulder", "right_shoulder", "left_elbow", "right_elbow",
               "left_wrist", "right_wrist", "left_knee", "right_knee",
               "left_ankle", "right_ankle"}

\* ------------------------------------------------------------ the drawing

extremity_colors ==
    [left_upper_arm |-> <<255, 165, 0>>, left_lower_arm |-> <<255, 255, 0>>,
     right_upper_arm |-> <<128, 0, 128>>, right_lower_arm |-> <<0, 255, 255>>,
     left_upper_leg |-> <<0, 0, 255>>, left_lower_leg |-> <<0, 255, 0>>,
     right_upper_leg |-> <<255, 105, 180>>, right_lower_leg |-> <<255, 0, 255>>]

joint_color == <<255, 0, 0>>
torso_color == <<128, 128, 128>>
head_color == <<255, 255, 255>>
text_color == <<255, 255, 255>>
background == <<0, 0, 0>>
segment_width == 8
joint_radius == 6
canvas_size == 1024
font_size == 200
text_margin == 20

\* (segment, start joint, end joint, length key), in drawing order.
segments ==
    << <<"left_upper_arm", "left_shoulder", "left_elbow", "upper_arm">>,
       <<"left_lower_arm", "left_elbow", "left_wrist", "lower_arm">>,
       <<"right_upper_arm", "right_shoulder", "right_elbow", "upper_arm">>,
       <<"right_lower_arm", "right_elbow", "right_wrist", "lower_arm">>,
       <<"left_upper_leg", "left_hip", "left_knee", "upper_leg">>,
       <<"left_lower_leg", "left_knee", "left_ankle", "lower_leg">>,
       <<"right_upper_leg", "right_hip", "right_knee", "upper_leg">>,
       <<"right_lower_leg", "right_knee", "right_ankle", "lower_leg">> >>

SegNames == { segments[k][1] : k \in 1..Len(segments) }

\* The midpoint of segment number k.
MidPoint(joints, k) ==
    LET a == joints[segments[k][2]]
        b == joints[segments[k][3]]
    IN  <<(a[1] + b[1]) \div 2, (a[2] + b[2]) \div 2>>

\* draw.line([a, b], width=w) paints the rectangle of width w around the
\* segment a-b, whose length is len pixels: p is in it when its foot on the
\* line lies between a and b and it is at most w/2 away from the line.
InLine(p, a, b, len, w) ==
    LET dx == b[1] - a[1]
        dy == b[2] - a[2]
        vx == p[1] - a[1]
        vy == p[2] - a[2]
        dot == vx * dx + vy * dy
        cross == vx * dy - vy * dx
    IN  /\ Abs(vx) <= Px(len) + Px(w)
        /\ Abs(vy) <= Px(len) + Px(w)
        /\ 0 <= dot
        /\ dot <= dx * dx + dy * dy
        /\ 2 * Abs(cross) <= Px(w) * Px(len)

\* draw.ellipse([c - r, c + r]) paints the disc of radius r around c.
InDisc(p, c, r) ==
    LET dx == p[1] - c[1]
        dy == p[2] - c[2]
    IN  /\ Abs(dx) <= Px(r)
        /\ Abs(dy) <= Px(r)
        /\ dx * dx + dy * dy <= Px(r) * Px(r)

\* The box of the label of index i: textbbox of the digits in the 200-pixel
\* bold face (a digit is 7/10 of the size wide, 3/4 high), right-aligned
\* 20 pixels from the right edge and centred vertically.
LabelBox(i) ==
    LET text_w == Len(Decimal(i)) * ((font_size * 7) \div 10)
        text_h == (font_size * 3) \div 4
        x == canvas_size - text_w - text_margin
        y == (canvas_size - text_h) \div 2
    IN  [x0 |-> Px(x), y0 |-> Px(y), x1 |-> Px(x + text_w), y1 |-> Px(y + text_h)]

InBox(p, box) == box.x0 <= p[1] /\ p[1] <= box.x1 /\ box.y0 <= p[2] /\ p[2] <= box.y1

\* The colours at the midpoints after draw.line(torso).
PaintTorso(pix, joints) ==
    [k \in DOMAIN pix |->
        IF InLine(MidPoint(joints, k), joints.hip_center, joints.neck,
                  lengths.torso, segment_width)
        THEN torso_color ELSE pix[k]]

\* ... after draw.ellipse(head).
PaintHead(pix, joints) ==
    [k \in DOMAIN pix |->
        IF InDisc(MidPoint(joints, k), joints.head_center, lengths.head_radius)
        THEN head_color ELSE pix[k]]

\* ... after draw.line of segment number n.
PaintSegment(pix, joints, n) ==
    [k \in DOMAIN pix |->
        IF InLine(MidPoint(joints, k), joints[segments[n][2]], joints[segments[n][3]],
                  lengths[segments[n][4]], segment_width)
        THEN extremity_colors[segments[n][1]] ELSE pix[k]]

\* ... after the loop "for seg_name, start_joint, end_joint in segments",
\* from segment number n on.
RECURSIVE PaintSegments(_, _, _)
PaintSegments(pix, joints, n) ==
    IF n > Len(segments) THEN pix
    ELSE PaintSegments(PaintSegment(pix, joints, n), joints, n + 1)

\* ... after the loop "for pos in joints.values()".
PaintJoints(pix, joints) ==
    [k \in DOMAIN pix |->
        IF \E j \in JointNames : InDisc(MidPoint(joints, k), joints[j], joint_radius)
        THEN joint_color ELSE pix[k]]

\* The drawing calls of the loop body, in their order.
DrawStepsJointsFirst == <<"torso", "head", "joints", "limbs", "label">>

DrawSteps == <<"torso", "head", "limbs", "joints", "label">>

\* ------------------------------------------------------------ one frame

ArmRange == 500
LegRange == 300

\* Values random.uniform(-0.5, 0.5) can return: the grid points of the range.
ArmAngles == { (k * ArmRange) \div ArmGrid : k \in (0 - ArmGrid)..ArmGrid }

\* Values random.uniform(-0.3, 0.3) can return: the ends and the middle.
LegAngles == { 0 - LegRange, 0, LegRange }

\* Indexes the label is drawn for: one, three and six digits.
LabelIndexes == {1, 150, 100000}

NoAngles == [left_upper_arm |-> 0, left_lower_arm |-> 0, right_upper_arm |-> 0,
             right_lower_arm |-> 0, left_upper_leg |-> 0, left_lower_leg |-> 0,
             right_upper_leg |-> 0, right_lower_leg |-> 0]

BlankPix == [k \in 1..Len(segments) |-> background]

\* Before the first statement of the loop body.
IdleFrame == [pc |-> "sample", angles |-> NoAngles,
              joints |-> compute_skeleton(hip_x, hip_y, lengths, NoAngles),
              pix |-> BlankPix, label |-> 0]

\* The place after drawing step pc.
AfterDraw(pc) ==
    LET p == CHOOSE k \in 1..Len(DrawSteps) : DrawSteps[k] = pc
    IN  IF p < Len(DrawSteps) THEN DrawSteps[p + 1] ELSE "drawn"

\* The angle sets the eight random.uniform calls can return.
AngleSets == [left_upper_arm : ArmAngles, left_lower_arm : ArmAngles,
              right_upper_arm : ArmAngles, right_lower_arm : ArmAngles,
              left_upper_leg : LegAngles, left_lower_leg : LegAngles,
              right_upper_leg : LegAngles, right_lower_leg : LegAngles]

\* The eight random.uniform calls.
SampleAngles ==
    /\ frame.pc = "sample"
    /\ \E a \in AngleSets : frame' = [frame EXCEPT !.pc = "solve", !.angles = a]
    /\ UNCHANGED appVars

\* joints = compute_skeleton(...); img = Image.new("RGB", (1024, 1024), "black")
Solve ==
    /\ frame.pc = "solve"
    /\ frame' = [frame EXCEPT !.pc = DrawSteps[1],
                              !.joints = compute_skeleton(hip_x, hip_y, lengths, frame.angles),
                              !.pix = BlankPix]
    /\ UNCHANGED appVars

DrawTorso ==
    /\ frame.pc = "torso"
    /\ frame' = [frame EXCEPT !.pc = AfterDraw("torso"),
                              !.pix = PaintTorso(frame.pix, frame.joints)]
    /\ UNCHANGED appVars

DrawHead ==
    /\ frame.pc = "head"
    /\ frame' = [frame EXCEPT !.pc = AfterDraw("head"),
                              !.pix = PaintHead(frame.pix, frame.joints)]
    /\ UNCHANGED appVars

DrawLimbs ==
    /\ frame.pc = "limbs"
    /\ frame' = [frame EXCEPT !.pc = AfterDraw("limbs"),
                              !.pix = PaintSegments(frame.pix, frame.joints, 1)]
    /\ UNCHANGED appVars

DrawJoints ==
    /\ frame.pc = "joints"
    /\ frame' = [frame EXCEPT !.pc = AfterDraw("joints"),
                              !.pix = PaintJoints(frame.pix, frame.joints)]
    /\ UNCHANGED appVars

\* The checkbox is off: no label.
SkipLabel ==
    /\ frame.pc = "label"
    /\ frame' = [frame EXCEPT !.pc = AfterDraw("label")]
    /\ UNCHANGED appVars

\* draw.text of the index i: a midpoint inside the box of the text is painted
\* when a glyph lies on it (hit), and left as it is otherwise.
DrawLabel ==
    /\ frame.pc = "label"
    /\ \E i \in LabelIndexes, hit \in BOOLEAN :
       frame' = [frame EXCEPT
                    !.pc = AfterDraw("label"),
                    !.label = i,
                    !.pix = [k \in DOMAIN frame.pix |->
                                IF hit /\ InBox(MidPoint(frame.joints, k), LabelBox(i))
                                THEN text_color ELSE frame.pix[k]]]
    /\ UNCHANGED appVars

\* The frame is saved and the loop goes on with the next one.
NextFrame ==
    /\ frame.pc = "drawn"
    /\ frame' = IdleFrame
    /\ UNCHANGED appVars

NextFrameStep ==
    \/ SampleAngles
    \/ Solve
    \/ DrawTorso
    \/ DrawHead
    \/ DrawLimbs
    \/ DrawJoints
    \/ SkipLabel
    \/ DrawLabel
    \/ NextFrame

\* ------------------------------------------------------------ specification

Init == InitApp /\ frame = IdleFrame

Next ==
    \/ \E text \in NumInputs : EditNum(text)
    \/ ToggleShowNumbers
    \/ ToggleShowProgress
    \/ start_generation
    \/ DismissError
    \/ process_queue
    \/ \E r \in 1..Len(workers) : Makedirs(r)
    \/ \E r \in 1..Len(workers) : MakedirsFail(r)
    \/ \E r \in 1..Len(workers) : Render(r)
    \/ \E r \in 1..Len(workers) : RenderFail(r)
    \/ \E r \in 1..Len(workers) : SaveOpen(r)
    \/ \E r \in 1..Len(workers) : SaveOpenFail(r)
    \/ \E r \in 1..Len(workers) : SaveWrite(r)
    \/ \E r \in 1..Len(workers), left \in {"partial", "absent"} : SaveWriteFail(r, left)
    \/ \E r \in 1..Len(workers) : Put(r)
    \/ \E r \in 1..Len(workers) : PutDone(r)

Spec == Init /\ [][Next]_vars

SpecFrame == Init /\ [][NextFrameStep]_vars

\* ------------------------------------------------------------ properties

RunIds == 1..Len(workers)

\* The items run r has put on the queue, in order.
LogOf(r) == SelectSeq(putLog, LAMBDA it : it.run = r)

\* 1, 2, ..., n and then 'DONE'.
FullLog(r, n) == [k \in 1..(n + 1) |-> IF k <= n THEN ProgressItem(r, k) ELSE DoneItem(r)]

IsPrefix(a, b) == Len(a) <= Len(b) /\ a = SubSeq(b, 1, Len(a))

Reported == { queue[k] : k \in 1..Len(queue) } \cup consumed

Existing == { f \in FileNames : files[f] # "absent" }

ValidCount(text) == ParseInt(text).ok /\ ParseInt(text).val > 0

\* C1: a run of count N whose frames are all saved puts exactly 1, 2, ..., N in
\* this order and then one 'DONE' on the queue, and nothing after it: at every
\* moment what the run has put is a prefix of that sequence, and it is the
\* whole sequence once generate_images has returned.
C1_ProgressIsOneToNThenDone ==
    \A r \in RunIds :
        workers[r].fail = "none" =>
            /\ IsPrefix(LogOf(r), FullLog(r, workers[r].num))
            /\ workers[r].pc = "finished" => LogOf(r) = FullLog(r, workers[r].num)
            /\ workers[r].pc # "finished" => DoneItem(r) \notin Reported

C1_Witness ==
    \E r \in RunIds :
        /\ workers[r].pc = "finished"
        /\ workers[r].num = MaxCount
        /\ LogOf(r) = FullLog(r, MaxCount)

\* C2: whenever progress item i of a run is on the queue or has been taken by
\* process_queue, img.save of frame i of that run has returned, and the file of
\* frame i is complete as long as no later run writes it again.
C2_ReportedOnlyAfterSaved ==
    \A it \in Reported :
        it.kind = "progress" =>
            /\ <<it.run, it.n>> \in savedBy
            /\ it.run = Len(workers) => files[FileName(it.n)] = "complete"

C2_Witness ==
    /\ Len(workers) >= 1
    /\ workers[Len(workers)].pc = "save_write"
    /\ workers[Len(workers)].i = 2
    /\ ProgressItem(Len(workers), 1) \in consumed

\* C3: a step of start_generation that finds a count that is zero, negative or
\* not a number shows the error and changes nothing else: no thread, no file, no
\* queue item, no timer, button, total_images and progress bar as before; and
\* no thread is ever started from such a count.
C3_InvalidCountRejected ==
    [][ /\ Len(workers') # Len(workers) => ValidCount(num_var)
        /\ (dialog = "none" /\ dialog' = "error") =>
              /\ ~ValidCount(num_var)
              /\ UNCHANGED <<workers, dir_exists, files, queue, after_pending,
                             gen_btn, total_images, progress, status_var, putLog>>
        /\ (gen_btn = "normal" /\ dialog = "none" /\ ~ValidCount(num_var)) =>
              UNCHANGED <<workers, dir_exists, files, queue, after_pending,
                          gen_btn, total_images, progress>>
      ]_vars

C3_Witness ==
    /\ dialog = "error"
    /\ num_var = <<"-", "3">>
    /\ Len(workers) = 1
    /\ Existing # {}

\* C4: when drawing or saving frame k of a run raises, the thread is dead: the
\* files of frames 1..k-1 are complete on the disk, no frame from k on has been
\* saved or reported by the run, 'DONE' is not put, and every drawing and every
\* save was attempted at most once (exactly once for the frames before k).
C4_FailureStopsTheRun ==
    /\ \A t \in DOMAIN attempts : attempts[t] <= 1
    /\ \A r \in RunIds :
        workers[r].fail \in {"render", "save"} =>
            LET k == workers[r].i IN
            /\ workers[r].pc = "dead"
            /\ \A j \in 1..(k - 1) :
                  /\ files[FileName(j)] = "complete"
                  /\ <<r, j>> \in savedBy
                  /\ attempts[<<r, "render", j>>] = 1
                  /\ attempts[<<r, "save", j>>] = 1
            /\ \A j \in Frames :
                  j >= k => /\ <<r, j>> \notin savedBy
                            /\ ProgressItem(r, j) \notin Reported
                            /\ \A n \in 1..Len(putLog) : putLog[n] # ProgressItem(r, j)
            /\ attempts[<<r, "render", k>>] = 1
            /\ attempts[<<r, "save", k>>] = (IF workers[r].fail = "save" THEN 1 ELSE 0)
            /\ \A j \in Frames : j > k => attempts[<<r, "render", j>>] = 0
                                          /\ attempts[<<r, "save", j>>] = 0
            /\ DoneItem(r) \notin Reported
            /\ \A n \in 1..Len(putLog) : putLog[n] # DoneItem(r)

C4_Witness ==
    \E r \in RunIds :
        /\ workers[r].fail = "save"
        /\ workers[r].i = 2
        /\ files[FileName(1)] = "complete"
        /\ files[FileName(2)] = "partial"
        /\ ProgressItem(r, 1) \in consumed

\* The latest run has put 'DONE'.
LatestDone == Len(workers) >= 1 /\ DoneItem(Len(workers)) \in Reported

RECURSIVE MaxNum(_)
MaxNum(ws) == IF ws = <<>> THEN 0
              ELSE LET m == MaxNum(Tail(ws)) IN IF Head(ws).num > m THEN Head(ws).num ELSE m

\* C5 as claimed: after a run of count N has emitted 'DONE' the directory holds
\* exactly the N files image_0001.png .. image_NNNN.png, after any sequence of
\* completed runs.
C5_ExactlyNFiles ==
    LatestDone =>
        Existing = { FileName(i) : i \in 1..workers[Len(workers)].num }

\* C5 as amended: after a run of count N has emitted 'DONE', the files of the
\* indexes 1..N are complete and were written by this run, every file of the
\* directory is complete and named by its index, and (the directory having
\* started empty) the directory holds the indexes 1..M without gaps, M the
\* largest count of the runs so far: the files an earlier, longer run left
\* above N are still there.
C5_FilesOneToNAndStale ==
    LatestDone =>
        LET r == Len(workers)
            n == workers[r].num
        IN  /\ \A i \in 1..n : /\ files[FileName(i)] = "complete"
                               /\ <<r, i>> \in savedBy
                               /\ IndexOf(FileName(i)) = i
            /\ \A f \in Existing : files[f] = "complete" /\ FileName(IndexOf(f)) = f
            /\ { IndexOf(f) : f \in Existing } = 1..MaxNum(workers)

C5_Witness ==
    /\ LatestDone
    /\ Len(workers) = 2
    /\ workers[1].num = 2
    /\ workers[2].num = 1
    /\ Cardinality(Existing) = 2

\* C9 as claimed: every frame of a run is drawn with the show-numbers value in
\* effect when start_generation accepted the run.
C9_ShowNumbersFixedPerRun ==
    \A r \in RunIds :
        workers[r].pc # "finished" => workers[r].label = workers[r].show0

Active == { r \in RunIds : workers[r].pc \notin {"finished", "dead"} }

\* C10: at most one thread runs generate_images and at most one process_queue
\* timer is scheduled; the items of two runs never interleave on the queue; the
\* button is enabled only when every run started so far has had its 'DONE'
\* taken by process_queue, and then no thread runs, no timer is scheduled and
\* the queue is empty.
C10_OneWorkerAtATime ==
    /\ Cardinality(Active) <= 1
    /\ after_pending <= 1
    /\ \A a, b \in 1..Len(putLog) : a < b => putLog[a].run <= putLog[b].run
    /\ \A a, b \in 1..Len(queue) : queue[a].run = queue[b].run
    /\ \A r \in RunIds : r < Len(workers) => workers[r].pc = "finished"
    /\ gen_btn = "normal" =>
          /\ Active = {}
          /\ after_pending = 0
          /\ queue = <<>>
          /\ \A r \in RunIds : DoneItem(r) \in consumed
    /\ (gen_btn = "disabled" /\ Len(workers) >= 1) => after_pending = 1

C10_Witness ==
    /\ Len(workers) = 2
    /\ workers[1].pc = "finished"
    /\ workers[2].pc = "save_write"
    /\ gen_btn = "disabled"
    /\ Len(queue) >= 1

\* ------------------------------------------------------------ properties of a frame

\* compute_skeleton has returned for the sampled angles.
Solved == frame.pc \notin {"sample", "solve"}

Sides == << <<"left_hip", "right_hip">>, <<"left_shoulder", "right_shoulder">>,
            <<"left_elbow", "right_elbow">>, <<"left_wrist", "right_wrist">>,
            <<"left_knee", "right_knee">>, <<"left_ankle", "right_ankle">> >>

Limbs == {"upper_arm", "lower_arm", "upper_leg", "lower_leg"}

Left(limb) == frame.angles[CASE limb = "upper_arm" -> "left_upper_arm"
                             [] limb = "lower_arm" -> "left_lower_arm"
                             [] limb = "upper_leg" -> "left_upper_leg"
                             [] limb = "lower_leg" -> "left_lower_leg"]

Right(limb) == frame.angles[CASE limb = "upper_arm" -> "right_upper_arm"
                              [] limb = "lower_arm" -> "right_lower_arm"
                              [] limb = "upper_leg" -> "right_upper_leg"
                              [] limb = "lower_leg" -> "right_lower_leg"]

AnglesEqual == \A limb \in Limbs : Left(limb) = Right(limb)
AnglesOpposite == \A limb \in Limbs : Left(limb) = 0 - Right(limb)

\* The two joints of pair k have the same Y and X mirrored across x = hip_x.
Mirrored(k) ==
    LET l == frame.joints[Sides[k][1]]
        r == frame.joints[Sides[k][2]]
    IN  l[2] = r[2] /\ l[1] + r[1] = 2 * Px(hip_x)

\* The right joint of pair k is the left one moved to the right by 2 * d pixels.
Shifted(k, d) ==
    LET l == frame.joints[Sides[k][1]]
        r == frame.joints[Sides[k][2]]
    IN  l[2] = r[2] /\ r[1] - l[1] = 2 * Px(d)

\* C7 as claimed: when every left angle equals the right one, the left and
\* right joints of every pair have the same Y and X mirrored across x = hip_x.
C7_MirrorWhenAnglesEqual ==
    (Solved /\ AnglesEqual) => \A k \in 1..Len(Sides) : Mirrored(k)

\* C7 as amended: the left and right joints of every pair are mirror images
\* across x = hip_x when every right angle is the negative of the left one;
\* when the angles are equal the two joints of a pair have the same Y, hips and
\* shoulders are mirrored, and each right elbow, wrist, knee and ankle is the
\* left one moved right by twice shoulder_width (arm) or hip_offset (leg).
C7_MirrorWhenAnglesOpposite ==
    Solved =>
        /\ AnglesOpposite => \A k \in 1..Len(Sides) : Mirrored(k)
        /\ AnglesEqual =>
              /\ Mirrored(1) /\ Mirrored(2)
              /\ Shifted(1, lengths.hip_offset) /\ Shifted(2, lengths.shoulder_width)
              /\ Shifted(3, lengths.shoulder_width) /\ Shifted(4, lengths.shoulder_width)
              /\ Shifted(5, lengths.hip_offset) /\ Shifted(6, lengths.hip_offset)

C7_Witness ==
    /\ Solved
    /\ AnglesOpposite
    /\ frame.angles.left_upper_arm = ArmRange
    /\ frame.angles.left_lower_arm = 0 - ArmRange
    /\ frame.angles.left_upper_leg = LegRange
    /\ frame.joints.left_elbow[1] + frame.joints.right_elbow[1] = 2 * Px(hip_x)
    /\ frame.joints.left_elbow[1] # frame.joints.left_shoulder[1]

\* end = start + (len * sin(a), len * cos(a))
Chained(start, end, len, a) ==
    /\ frame.joints[end][1] = frame.joints[start][1] + Times(len, Sin(a))
    /\ frame.joints[end][2] = frame.joints[start][2] + Times(len, Cos(a))

ColorOf(k) == extremity_colors[segments[k][1]]

\* A segment drawn after segment k covers the midpoint of k.
UnderLaterSegment(k) ==
    \E n \in (k + 1)..Len(segments) :
        InLine(MidPoint(frame.joints, k), frame.joints[segments[n][2]],
               frame.joints[segments[n][3]], lengths[segments[n][4]], segment_width)

\* A joint marker covers the midpoint of segment k.
UnderJoint(k) ==
    \E j \in JointNames : InDisc(MidPoint(frame.joints, k), frame.joints[j], joint_radius)

\* The midpoint of segment k lies in the box of the label drawn.
UnderLabel(k) ==
    frame.label # 0 /\ InBox(MidPoint(frame.joints, k), LabelBox(frame.label))

\* C6 as claimed: in every finished frame the pixel at the midpoint of each of
\* the 8 limb segments has the segment's colour of the colour table.
C6_MidpointHasSegmentColor ==
    frame.pc = "drawn" => \A k \in 1..Len(segments) : frame.pix[k] = ColorOf(k)

\* C6 as amended: every limb segment is drawn in its colour of the fixed colour
\* table, and in the finished frame the pixel at its midpoint has that colour
\* unless a shape drawn later lies on it: it has another colour whenever a later
\* limb segment or a joint marker covers the midpoint, and it has the segment's
\* colour whenever none of them does and the midpoint is outside the label.
C6_MidpointColorUnlessCovered ==
    /\ frame.pc = "joints" =>
          \A k \in 1..Len(segments) : ~UnderLaterSegment(k) => frame.pix[k] = ColorOf(k)
    /\ frame.pc = "drawn" =>
          \A k \in 1..Len(segments) :
              /\ (UnderLaterSegment(k) \/ UnderJoint(k)) => frame.pix[k] # ColorOf(k)
              /\ UnderJoint(k) => frame.pix[k] \in {joint_color, text_color}
              /\ ~(UnderLaterSegment(k) \/ UnderJoint(k) \/ UnderLabel(k)) =>
                    frame.pix[k] = ColorOf(k)

C6_Witness ==
    /\ frame.pc = "drawn"
    /\ frame.angles = NoAngles
    /\ UnderJoint(2)
    /\ frame.pix[2] = joint_color
    /\ frame.pix[1] = ColorOf(1)

====
